---- MODULE Spec2Model ----
(***************************************************************************)
(* Model of dbibackend/dbi.py: the DBI USB command loop (poll_commands)    *)
(* and its three handlers.  Bytes are integers 0..255, strings are         *)
(* sequences of Unicode code points, and every transport read or write of  *)
(* the handlers is one step of the single thread of control.               *)
(*                                                                         *)
(* File data is never materialised: a write of file bytes is logged as the *)
(* span (path, off, len) of the file it was read from, so that ranges of   *)
(* several MiB can be streamed with the real chunk size.                   *)
(***************************************************************************)
EXTENDS Integers, Sequences, FiniteSets, TLC

\* ------------------------------------------------------------------------
\* Program constants
\* ------------------------------------------------------------------------
BUFFER_SEGMENT_DATA_SIZE == 1048576

EXIT == 0
LIST_DEPRECATED == 1
FILE_RANGE == 2
LIST == 3

REQUEST == 0
RESPONSE == 1
ACK == 2

\* b'DBI0'
Magic == <<68, 66, 73, 48>>

\* ------------------------------------------------------------------------
\* Bounds of the model
\* ------------------------------------------------------------------------
\* number of 16-byte header reads poll_commands performs in one session
MaxHeaders == 3

\* ------------------------------------------------------------------------
\* struct.pack / struct.unpack, little-endian unsigned
\* ------------------------------------------------------------------------
RECURSIVE PackLE(_, _)
PackLE(n, width) ==
    IF width = 0 THEN <<>> ELSE <<n % 256>> \o PackLE(n \div 256, width - 1)

RECURSIVE UnpackLE(_)
UnpackLE(bytes) ==
    IF bytes = <<>> THEN 0 ELSE Head(bytes) + 256 * UnpackLE(Tail(bytes))

\* struct.pack('<4sIII', b'DBI0', type, id, size)
PackHeader(type, id, size) ==
    Magic \o PackLE(type, 4) \o PackLE(id, 4) \o PackLE(size, 4)

\* Python slice b[lo:hi] (0-based, hi exclusive, clipped to the length)
Slice(b, lo, hi) ==
    LET h == IF hi < Len(b) THEN hi ELSE Len(b)
    IN  IF lo >= h THEN <<>> ELSE SubSeq(b, lo + 1, h)

\* variant: a short buffer is unpacked as if padded with zero bytes
CanUnpackLenient(b, width) == Len(b) <= width

\* struct.unpack(fmt, b) raises struct.error unless len(b) is the format's size
CanUnpack(b, width) == Len(b) = width

\* variant: the last byte of the prefix is not compared
StartsWithShort(b, prefix) ==
    /\ Len(b) >= Len(prefix)
    /\ SubSeq(b, 1, Len(prefix) - 1) = SubSeq(prefix, 1, Len(prefix) - 1)

\* bytes.startswith(prefix)
StartsWith(b, prefix) ==
    /\ Len(b) >= Len(prefix)
    /\ SubSeq(b, 1, Len(prefix)) = prefix

\* ------------------------------------------------------------------------
\* str: sequences of code points; UTF-8 encode / decode
\* ------------------------------------------------------------------------
EncodeChar(c) ==
    IF c < 128 THEN <<c>>
    ELSE IF c < 2048 THEN <<192 + (c \div 64), 128 + (c % 64)>>
    ELSE IF c < 65536
         THEN <<224 + (c \div 4096), 128 + ((c \div 64) % 64), 128 + (c % 64)>>
    ELSE <<240 + (c \div 262144), 128 + ((c \div 4096) % 64),
           128 + ((c \div 64) % 64), 128 + (c % 64)>>

\* str.encode('utf-8')
RECURSIVE EncodeUtf8(_)
EncodeUtf8(s) ==
    IF s = <<>> THEN <<>> ELSE EncodeChar(Head(s)) \o EncodeUtf8(Tail(s))

IsCont(b) == b >= 128 /\ b < 192

\* bytes.decode('utf-8'), strict: [ok |-> FALSE] stands for UnicodeDecodeError
RECURSIVE DecodeUtf8(_)
DecodeUtf8(b) ==
    IF b = <<>> THEN [ok |-> TRUE, str |-> <<>>]
    ELSE
      LET b1 == b[1]
          n  == IF b1 < 128 THEN 1
                ELSE IF b1 >= 194 /\ b1 < 224 THEN 2
                ELSE IF b1 >= 224 /\ b1 < 240 THEN 3
                ELSE IF b1 >= 240 /\ b1 < 245 THEN 4
                ELSE 0
          wellFormed ==
              /\ n > 0
              /\ Len(b) >= n
              /\ \A i \in 2..n : IsCont(b[i])
              /\ (b1 = 224 => b[2] >= 160)
              /\ (b1 = 237 => b[2] < 160)
              /\ (b1 = 240 => b[2] >= 144)
              /\ (b1 = 244 => b[2] < 144)
          c  == IF n = 1 THEN b1
                ELSE IF n = 2 THEN (b1 - 192) * 64 + (b[2] - 128)
                ELSE IF n = 3
                     THEN (b1 - 224) * 4096 + (b[2] - 128) * 64 + (b[3] - 128)
                ELSE (b1 - 240) * 262144 + (b[2] - 128) * 4096
                     + (b[3] - 128) * 64 + (b[4] - 128)
      IN  IF ~wellFormed THEN [ok |-> FALSE, str |-> <<>>]
          ELSE LET rest == DecodeUtf8(SubSeq(b, n + 1, Len(b)))
               IN  IF rest.ok THEN [ok |-> TRUE, str |-> <<c>> \o rest.str]
                   ELSE rest

\* str.lower(), on the code points of Latin-1 (the alphabet of the model)
LowerChar(c) ==
    IF c >= 65 /\ c <= 90 THEN c + 32
    ELSE IF c >= 192 /\ c <= 222 /\ c # 215 THEN c + 32
    ELSE c

Lower(s) == [i \in 1..Len(s) |-> LowerChar(s[i])]

\* str.endswith(suffix)
EndsWith(s, suffix) ==
    /\ Len(s) >= Len(suffix)
    /\ SubSeq(s, Len(s) - Len(suffix) + 1, Len(s)) = suffix

\* '.nsp', 'nsz', '.xci' as written at line 121
DotNsp == <<46, 110, 115, 112>>
Nsz    == <<110, 115, 122>>
DotXci == <<46, 120, 99, 105>>

\* the filter of line 121
IsRomFile(filename) ==
    \/ EndsWith(Lower(filename), DotNsp)
    \/ EndsWith(Lower(filename), Nsz)
    \/ EndsWith(Lower(filename), DotXci)

\* str(Path(dirName).joinpath(filename))
JoinPath(dirName, filename) == dirName \o <<47>> \o filename

\* ------------------------------------------------------------------------
\* OrderedDict: a sequence of <<key, value>> pairs in insertion order
\* ------------------------------------------------------------------------
DictKeys(d) == [i \in 1..Len(d) |-> d[i][1]]

DictHas(d, k) == \E i \in 1..Len(d) : d[i][1] = k

DictGet(d, k) == d[CHOOSE i \in 1..Len(d) : d[i][1] = k][2]

\* variant: an existing key is removed and the pair put at the end
DictSetMoveToEnd(d, k, v) ==
    Append(SelectSeq(d, LAMBDA e : e[1] # k), <<k, v>>)

\* d[k] = v : an existing key keeps its position and takes the new value
DictSet(d, k, v) ==
    IF DictHas(d, k)
    THEN [i \in 1..Len(d) |-> IF d[i][1] = k THEN <<k, v>> ELSE d[i]]
    ELSE Append(d, <<k, v>>)

\* ------------------------------------------------------------------------
\* The environment: what the peer sends and what the file system holds
\* ------------------------------------------------------------------------
\* file names, as code points
NameA == <<97, 46, 110, 115, 112>>        \* "a.nsp"
NameB == <<66, 46, 78, 83, 90>>           \* "B.NSZ"
NameE == <<233, 46, 120, 99, 105>>        \* "e.xci" with e-acute (2 bytes)
NameT == <<100, 46, 116, 120, 116>>       \* "d.txt"
NameZ == <<101, 110, 115, 122>>           \* "ensz", no extension at all
RootDir == <<114>>                        \* "r"
SubDir  == <<114, 47, 115>>               \* "r/s"

\* what os.walk(work_dir_path) yields: a sequence of <<dirName, fileList>>
Tree0 == << <<RootDir, <<>>>> >>
Tree1 == << <<RootDir, <<NameA, NameT>>>>, <<SubDir, <<NameB, NameA>>>> >>
Tree2 == << <<RootDir, <<NameE, NameZ>>>> >>
Trees == {Tree0, Tree1, Tree2}

Zero16 == [i \in 1..16 |-> 0]
\* "DBI1" followed by the fields of an EXIT request
AlmostMagic == <<68, 66, 73, 49>> \o PackLE(REQUEST, 4) \o PackLE(EXIT, 4) \o PackLE(0, 4)
NonMagicBlocks == {Zero16, AlmostMagic}

HeaderTypes == {REQUEST, RESPONSE, ACK, 7}
HeaderIds   == {EXIT, LIST_DEPRECATED, FILE_RANGE, LIST, 99}
HeaderSizes == {0, 15, 16, 17, 21, 22}

\* the 16-byte blocks the peer may send while a header is awaited
HeaderBlocks ==
    {PackHeader(t, i, s) : t \in HeaderTypes, i \in HeaderIds, s \in HeaderSizes}
        \cup NonMagicBlocks

\* the 16-byte blocks the peer may send where a handler reads its ACK
AckBlocks == {PackHeader(ACK, LIST, 0), Zero16, PackHeader(REQUEST, EXIT, 0)}

RangeSizes   == {0, 4, BUFFER_SEGMENT_DATA_SIZE + 1, 2 * BUFFER_SEGMENT_DATA_SIZE + 3}
RangeOffsets == {2, 8, 12}
ReqNames     == {<<>>, NameA, NameE}

\* a FILE_RANGE request payload as the peer packs it
PackRequest(size, offset, nameBytes) ==
    PackLE(size, 4) \o PackLE(offset, 8) \o PackLE(Len(nameBytes), 4) \o nameBytes

\* well-formed payloads, a payload whose name is not UTF-8, and short ones
Payloads ==
    {PackRequest(s, o, EncodeUtf8(n)) : s \in RangeSizes, o \in RangeOffsets, n \in ReqNames}
        \cup {PackRequest(4, 2, <<255>>)}
        \cup {<<>>, [i \in 1..15 |-> 0]}

\* lengths of the file found at the resolved path; Missing: open() raises
Missing  == -1
FileLens == {10, 2 * BUFFER_SEGMENT_DATA_SIZE + 5}

\* ------------------------------------------------------------------------
\* State
\* ------------------------------------------------------------------------
VARIABLES
    pc,              \* position of the thread of control
    cmd_cache,       \* poll_commands: the active catalog, [none, items]
    prev_cache,      \* history: the value of cmd_cache the last LIST replaced
    nHeaders,        \* header reads done by poll_commands
    skipped,         \* consecutive non-magic blocks discarded
    ops,             \* transport and file-system operations since the last header read
    warnings,        \* log.warning calls since the last header read
    fault,           \* the exception that ended the session, or "none"
    data_size,       \* process_file_range_command: argument
    range_size,      \* process_file_range_command: local
    range_offset,    \* process_file_range_command: local
    nsp_name,        \* process_file_range_command: local (after resolution)
    f,               \* process_file_range_command: the open file [len, pos]
    remaining_size,  \* process_file_range_command: local
    cached_roms,     \* process_list_command: local
    nsp_path_list_bytes  \* process_list_command: local

vars == <<pc, cmd_cache, prev_cache, nHeaders, skipped, ops, warnings, fault, data_size,
          range_size, range_offset, nsp_name, f, remaining_size, cached_roms,
          nsp_path_list_bytes>>

frLocals   == <<data_size, range_size, range_offset, nsp_name, f, remaining_size>>
listLocals == <<cached_roms, nsp_path_list_bytes>>

None == [none |-> TRUE, items |-> <<>>]
Some(d) == [none |-> FALSE, items |-> d]

NoFile == [len |-> 0, pos |-> 0]

RdOp(b) == [op |-> "read", data |-> b, path |-> <<>>, off |-> 0, len |-> Len(b)]
WrOp(b) == [op |-> "write", data |-> b, path |-> <<>>, off |-> 0, len |-> Len(b)]
WrFileOp(path, off, len) ==
    [op |-> "write_file", data |-> <<>>, path |-> path, off |-> off, len |-> len]
OpenOp(path, len) ==
    [op |-> "open", data |-> <<>>, path |-> path, off |-> 0, len |-> len]
WalkOp(tree) ==
    [op |-> "walk", data |-> tree, path |-> <<>>, off |-> 0, len |-> Len(tree)]

Init ==
    /\ pc = "AWAIT_HEADER"
    /\ cmd_cache = None
    /\ prev_cache = None
    /\ nHeaders = 0
    /\ skipped = 0
    /\ ops = <<>>
    /\ warnings = <<>>
    /\ fault = "none"
    /\ data_size = 0
    /\ range_size = 0
    /\ range_offset = 0
    /\ nsp_name = <<>>
    /\ f = NoFile
    /\ remaining_size = 0
    /\ cached_roms = <<>>
    /\ nsp_path_list_bytes = <<>>

\* an exception nobody catches: it leaves poll_commands and main
Raise(kind) ==
    /\ pc' = "CRASHED"
    /\ fault' = kind

\* variant: the exception is caught where it is raised and the step is retried
TransportFailsRetried ==
    /\ fault' = "transport"
    /\ UNCHANGED <<pc, cmd_cache, prev_cache, nHeaders, skipped, ops, warnings,
                   frLocals, listLocals>>

\* context.read / context.write raising
TransportFails ==
    /\ Raise("transport")
    /\ UNCHANGED <<cmd_cache, prev_cache, nHeaders, skipped, ops, warnings, frLocals, listLocals>>

\* ------------------------------------------------------------------------
\* poll_commands
\* ------------------------------------------------------------------------
\* variant: the deprecated list command is served like LIST
HandlerForDeprecatedList(cmd_id) ==
    IF cmd_id = EXIT THEN "exit"
    ELSE IF cmd_id = LIST \/ cmd_id = LIST_DEPRECATED THEN "list"
    ELSE IF cmd_id = FILE_RANGE THEN "file_range"
    ELSE "unknown"

\* the if / elif chain of lines 159-167: the handler a command id selects
HandlerFor(cmd_id) ==
    IF cmd_id = EXIT THEN "exit"
    ELSE IF cmd_id = LIST THEN "list"
    ELSE IF cmd_id = FILE_RANGE THEN "file_range"
    ELSE "unknown"

\* variant: an unknown id is skipped like a block without the magic
EntryOfIgnoringUnknown(handler) ==
    IF handler = "list" THEN "LIST_RESPONSE"
    ELSE IF handler = "file_range" THEN "FR_ACK"
    ELSE IF handler = "unknown" THEN "AWAIT_HEADER"
    ELSE "EXIT_RESPONSE"

\* where each handler starts
EntryOf(handler) ==
    IF handler = "list" THEN "LIST_RESPONSE"
    ELSE IF handler = "file_range" THEN "FR_ACK"
    ELSE "EXIT_RESPONSE"

\* variant: a header whose type is not REQUEST is skipped
DispatchRequestsOnly(cmd_header) ==
    IF ~StartsWith(cmd_header, Magic) \/ UnpackLE(Slice(cmd_header, 4, 8)) # REQUEST
    THEN [pc |-> "AWAIT_HEADER", skipped |-> skipped + 1, warnings |-> <<>>,
          data_size |-> data_size]
    ELSE LET cmd_id   == UnpackLE(Slice(cmd_header, 8, 12))
             size     == UnpackLE(Slice(cmd_header, 12, 16))
             h        == HandlerFor(cmd_id)
         IN  [pc |-> EntryOf(h),
              skipped |-> 0,
              warnings |-> IF h = "unknown" THEN <<"unknown command id">> ELSE <<>>,
              data_size |-> IF h = "file_range" THEN size ELSE data_size]

\* lines 150-167: what the 16 bytes read decide: the next position, the
\* count of skipped blocks, the warning, the argument of the handler
Dispatch(cmd_header) ==
    IF ~StartsWith(cmd_header, Magic)
    THEN [pc |-> "AWAIT_HEADER", skipped |-> skipped + 1, warnings |-> <<>>,
          data_size |-> data_size]
    ELSE LET cmd_type == UnpackLE(Slice(cmd_header, 4, 8))
             cmd_id   == UnpackLE(Slice(cmd_header, 8, 12))
             size     == UnpackLE(Slice(cmd_header, 12, 16))
             h        == HandlerFor(cmd_id)
         IN  [pc |-> EntryOf(h),
              skipped |-> 0,
              warnings |-> IF h = "unknown" THEN <<"unknown command id">> ELSE <<>>,
              data_size |-> IF h = "file_range" THEN size ELSE data_size]

\* lines 149-167: read 16 bytes, skip them or dispatch on the id
ReadHeader ==
    /\ pc = "AWAIT_HEADER"
    /\ nHeaders < MaxHeaders
    /\ \/ TransportFails
       \/ \E cmd_header \in HeaderBlocks :
            /\ nHeaders' = nHeaders + 1
            /\ ops' = <<RdOp(cmd_header)>>
            /\ UNCHANGED <<cmd_cache, prev_cache, fault, range_size, range_offset,
                           nsp_name, f, remaining_size, listLocals>>
            /\ pc' = Dispatch(cmd_header).pc
            /\ skipped' = Dispatch(cmd_header).skipped
            /\ warnings' = Dispatch(cmd_header).warnings
            /\ data_size' = Dispatch(cmd_header).data_size

\* ------------------------------------------------------------------------
\* process_exit_command
\* ------------------------------------------------------------------------
\* variant: the response is written but the process does not exit
ExitCommandReturns ==
    /\ pc = "EXIT_RESPONSE"
    /\ \/ TransportFails
       \/ /\ ops' = Append(ops, WrOp(PackHeader(RESPONSE, EXIT, 0)))
          /\ pc' = "AWAIT_HEADER"
          /\ UNCHANGED <<cmd_cache, prev_cache, nHeaders, skipped, warnings, fault, frLocals,
                         listLocals>>

\* lines 110-111: write the EXIT response, then sys.exit(0)
ExitCommand ==
    /\ pc = "EXIT_RESPONSE"
    /\ \/ TransportFails
       \/ /\ ops' = Append(ops, WrOp(PackHeader(RESPONSE, EXIT, 0)))
          /\ pc' = "TERMINATED"
          /\ UNCHANGED <<cmd_cache, prev_cache, nHeaders, skipped, warnings, fault, frLocals,
                         listLocals>>

\* ------------------------------------------------------------------------
\* process_list_command
\* ------------------------------------------------------------------------
\* lines 120-123: the files of one directory, filtered, put into the dict
RECURSIVE AddFiles(_, _, _)
AddFiles(d, dirName, fileList) ==
    IF fileList = <<>> THEN d
    ELSE LET filename == Head(fileList)
             d1 == IF IsRomFile(filename)
                   THEN DictSet(d, filename, JoinPath(dirName, filename))
                   ELSE d
         IN  AddFiles(d1, dirName, Tail(fileList))

\* lines 117-123: cached_roms after the walk
RECURSIVE WalkInto(_, _)
WalkInto(d, tree) ==
    IF tree = <<>> THEN d
    ELSE WalkInto(AddFiles(d, Head(tree)[1], Head(tree)[2]), Tail(tree))

BuildCatalog(tree) == WalkInto(<<>>, tree)

\* lines 125-127: nsp_path_list, every key followed by '\n'
RECURSIVE JoinLines(_)
JoinLines(keys) ==
    IF keys = <<>> THEN <<>> ELSE Head(keys) \o <<10>> \o JoinLines(Tail(keys))

\* line 128: nsp_path_list_bytes
SerializeList(roms) == EncodeUtf8(JoinLines(DictKeys(roms)))

\* variant: the length of the text, not of its encoding
ListLenOfStr(roms) == Len(JoinLines(DictKeys(roms)))

\* line 129: nsp_path_list_len
ListLen(roms) == Len(SerializeList(roms))

ListReturn ==
    /\ pc' = "AWAIT_HEADER"
    /\ cached_roms' = <<>>
    /\ nsp_path_list_bytes' = <<>>

\* variant: the catalog is made the active one as soon as it is built
ListResponseInstalls ==
    /\ pc = "LIST_RESPONSE"
    /\ \E tree \in Trees :
         LET roms == BuildCatalog(tree)
         IN  /\ cached_roms' = roms
             /\ cmd_cache' = Some(roms)
             /\ nsp_path_list_bytes' = SerializeList(roms)
             /\ \/ /\ Raise("transport")
                   /\ ops' = Append(ops, WalkOp(tree))
                \/ /\ ops' = ops \o <<WalkOp(tree),
                                      WrOp(PackHeader(RESPONSE, LIST, ListLen(roms)))>>
                   /\ pc' = "LIST_ACK"
                   /\ UNCHANGED fault
    /\ UNCHANGED <<prev_cache, nHeaders, skipped, warnings, frLocals>>

\* lines 117-131: walk, serialize, write the RESPONSE header
ListResponse ==
    /\ pc = "LIST_RESPONSE"
    /\ \E tree \in Trees :
         LET roms == BuildCatalog(tree)
         IN  /\ cached_roms' = roms
             /\ nsp_path_list_bytes' = SerializeList(roms)
             /\ \/ /\ Raise("transport")
                   /\ ops' = Append(ops, WalkOp(tree))
                \/ /\ ops' = ops \o <<WalkOp(tree),
                                      WrOp(PackHeader(RESPONSE, LIST, ListLen(roms)))>>
                   /\ pc' = "LIST_ACK"
                   /\ UNCHANGED fault
    /\ UNCHANGED <<cmd_cache, prev_cache, nHeaders, skipped, warnings, frLocals>>

\* variant: the 16 bytes read as the ack go through the dispatch of line 159
ListAckDispatching ==
    /\ pc = "LIST_ACK"
    /\ \/ TransportFails
       \/ \E ack \in AckBlocks :
            /\ ops' = Append(ops, RdOp(ack))
            /\ pc' = IF StartsWith(ack, Magic)
                     THEN EntryOf(HandlerFor(UnpackLE(Slice(ack, 8, 12))))
                     ELSE "LIST_PAYLOAD"
            /\ UNCHANGED <<cmd_cache, prev_cache, nHeaders, skipped, warnings, fault, frLocals,
                           listLocals>>

\* lines 133-138: read 16 bytes, unpack three fields for the debug log
ListAck ==
    /\ pc = "LIST_ACK"
    /\ \/ TransportFails
       \/ \E ack \in AckBlocks :
            /\ ops' = Append(ops, RdOp(ack))
            /\ pc' = "LIST_PAYLOAD"
            /\ UNCHANGED <<cmd_cache, prev_cache, nHeaders, skipped, warnings, fault, frLocals,
                           listLocals>>

\* variant: the new entries are put into the catalog already held
ListPayloadMerges ==
    /\ pc = "LIST_PAYLOAD"
    /\ \/ TransportFails
       \/ /\ ops' = Append(ops, WrOp(nsp_path_list_bytes))
          /\ cmd_cache' = Some(cmd_cache.items \o
                 SelectSeq(cached_roms, LAMBDA e : ~DictHas(cmd_cache.items, e[1])))
          /\ prev_cache' = cmd_cache
          /\ ListReturn
          /\ UNCHANGED <<nHeaders, skipped, warnings, fault, frLocals>>

\* lines 140-141 and the assignment of line 162
ListPayload ==
    /\ pc = "LIST_PAYLOAD"
    /\ \/ TransportFails
       \/ /\ ops' = Append(ops, WrOp(nsp_path_list_bytes))
          /\ cmd_cache' = Some(cached_roms)
          /\ prev_cache' = cmd_cache
          /\ ListReturn
          /\ UNCHANGED <<nHeaders, skipped, warnings, fault, frLocals>>

\* ------------------------------------------------------------------------
\* process_file_range_command
\* ------------------------------------------------------------------------
\* variant: the catalog is not consulted
ResolveLiteral(cache, name) == name

\* lines 73-75: the path that replaces the requested name
Resolve(cache, name) ==
    IF ~cache.none /\ Len(cache.items) > 0
    THEN IF DictHas(cache.items, name) THEN DictGet(cache.items, name) ELSE name
    ELSE name

\* variant: the whole remainder in one write
ChunkSizeUncapped(remaining) == remaining

\* line 96
ChunkSize(remaining) ==
    IF BUFFER_SEGMENT_DATA_SIZE < remaining THEN BUFFER_SEGMENT_DATA_SIZE
    ELSE remaining

\* line 97: the number of bytes f.read(n) returns at the file's position
FileRead(file, n) ==
    LET avail == IF file.len > file.pos THEN file.len - file.pos ELSE 0
    IN  IF n < avail THEN n ELSE avail

FrReturn ==
    /\ pc' = "AWAIT_HEADER"
    /\ data_size' = 0
    /\ range_size' = 0
    /\ range_offset' = 0
    /\ nsp_name' = <<>>
    /\ f' = NoFile
    /\ remaining_size' = 0

\* line 67: write the ACK header carrying the size of the request payload
FrAck ==
    /\ pc = "FR_ACK"
    /\ \/ TransportFails
       \/ /\ ops' = Append(ops, WrOp(PackHeader(ACK, FILE_RANGE, data_size)))
          /\ pc' = "FR_PAYLOAD"
          /\ UNCHANGED <<cmd_cache, prev_cache, nHeaders, skipped, warnings, fault, frLocals,
                         listLocals>>

\* lines 68-77: read the payload, parse it, resolve the name
FrPayload ==
    /\ pc = "FR_PAYLOAD"
    /\ \/ TransportFails
       \/ \E file_range_header \in {p \in Payloads : Len(p) = data_size} :
            LET name == DecodeUtf8(Slice(file_range_header, 16, Len(file_range_header)))
            IN
            /\ ops' = Append(ops, RdOp(file_range_header))
            /\ UNCHANGED <<cmd_cache, prev_cache, nHeaders, skipped, warnings, data_size, f,
                           remaining_size, listLocals>>
            /\ IF \/ ~CanUnpack(Slice(file_range_header, 0, 4), 4)
                  \/ ~CanUnpack(Slice(file_range_header, 4, 12), 8)
                  \/ ~CanUnpack(Slice(file_range_header, 12, 16), 4)
               THEN /\ Raise("struct.error")
                    /\ UNCHANGED <<range_size, range_offset, nsp_name>>
               ELSE /\ range_size' = UnpackLE(Slice(file_range_header, 0, 4))
                    /\ range_offset' = UnpackLE(Slice(file_range_header, 4, 12))
                    /\ IF ~name.ok
                       THEN /\ Raise("UnicodeDecodeError")
                            /\ UNCHANGED nsp_name
                       ELSE /\ nsp_name' = Resolve(cmd_cache, name.str)
                            /\ pc' = "FR_RESPONSE"
                            /\ UNCHANGED fault

\* variant: the RESPONSE header carries data_size, the length of the request
FrResponseDataSize ==
    /\ pc = "FR_RESPONSE"
    /\ \/ TransportFails
       \/ /\ ops' = Append(ops, WrOp(PackHeader(RESPONSE, FILE_RANGE, data_size)))
          /\ pc' = "FR_READ_ACK"
          /\ UNCHANGED <<cmd_cache, prev_cache, nHeaders, skipped, warnings, fault,
                         frLocals, listLocals>>

\* lines 79-80: write the RESPONSE header announcing range_size
FrResponse ==
    /\ pc = "FR_RESPONSE"
    /\ \/ TransportFails
       \/ /\ ops' = Append(ops, WrOp(PackHeader(RESPONSE, FILE_RANGE, range_size)))
          /\ pc' = "FR_READ_ACK"
          /\ UNCHANGED <<cmd_cache, prev_cache, nHeaders, skipped, warnings, fault, frLocals,
                         listLocals>>

\* lines 82-87: read 16 bytes; data_size is reassigned from them
FrReadAck ==
    /\ pc = "FR_READ_ACK"
    /\ \/ TransportFails
       \/ \E ack \in AckBlocks :
            /\ ops' = Append(ops, RdOp(ack))
            /\ data_size' = UnpackLE(Slice(ack, 12, 16))
            /\ pc' = "FR_OPEN"
            /\ UNCHANGED <<cmd_cache, prev_cache, nHeaders, skipped, warnings, fault, range_size,
                           range_offset, nsp_name, f, remaining_size, listLocals>>

\* variant: a failed open() is reported to the peer before the exception
FrOpenReportsError ==
    /\ pc = "FR_OPEN"
    /\ \E len \in FileLens \cup {Missing} :
         /\ nsp_name = <<>> => len = Missing
         /\ UNCHANGED <<cmd_cache, prev_cache, nHeaders, skipped, warnings, listLocals>>
         /\ IF len = Missing
            THEN /\ ops' = ops \o <<OpenOp(nsp_name, len),
                                    WrOp(PackHeader(RESPONSE, FILE_RANGE, 0))>>
                 /\ Raise("OSError")
                 /\ UNCHANGED frLocals
            ELSE /\ ops' = Append(ops, OpenOp(nsp_name, len))
                 /\ UNCHANGED fault
                 /\ IF range_size > 0
                    THEN /\ pc' = "FR_STREAM"
                         /\ f' = [len |-> len, pos |-> range_offset]
                         /\ remaining_size' = range_size
                         /\ UNCHANGED <<data_size, range_size, range_offset, nsp_name>>
                    ELSE FrReturn

\* variant: the failure of open() is caught and the command loop goes on
FrOpenCaught ==
    /\ pc = "FR_OPEN"
    /\ \E len \in FileLens \cup {Missing} :
         /\ nsp_name = <<>> => len = Missing
         /\ ops' = Append(ops, OpenOp(nsp_name, len))
         /\ UNCHANGED <<cmd_cache, prev_cache, nHeaders, skipped, warnings, listLocals, fault>>
         /\ IF len = Missing
            THEN FrReturn
            ELSE IF range_size > 0
                 THEN /\ pc' = "FR_STREAM"
                      /\ f' = [len |-> len, pos |-> range_offset]
                      /\ remaining_size' = range_size
                      /\ UNCHANGED <<data_size, range_size, range_offset, nsp_name>>
                 ELSE FrReturn

\* lines 89-94: open, seek, set the counter, first test of the loop
FrOpen ==
    /\ pc = "FR_OPEN"
    /\ \E len \in FileLens \cup {Missing} :
         /\ nsp_name = <<>> => len = Missing
         /\ ops' = Append(ops, OpenOp(nsp_name, len))
         /\ UNCHANGED <<cmd_cache, prev_cache, nHeaders, skipped, warnings, listLocals>>
         /\ IF len = Missing
            THEN /\ Raise("OSError")
                 /\ UNCHANGED frLocals
            ELSE /\ UNCHANGED fault
                 /\ IF range_size > 0
                    THEN /\ pc' = "FR_STREAM"
                         /\ f' = [len |-> len, pos |-> range_offset]
                         /\ remaining_size' = range_size
                         /\ UNCHANGED <<data_size, range_size, range_offset, nsp_name>>
                    ELSE FrReturn

\* variant: no test for an empty read (lines 99-101 left out)
FrStreamNoEofCheck ==
    /\ pc = "FR_STREAM"
    /\ LET chunk_size == ChunkSize(remaining_size)
           buf == FileRead(f, chunk_size)
       IN  \/ TransportFails
           \/ /\ ops' = Append(ops, WrFileOp(nsp_name, f.pos, buf))
              /\ UNCHANGED <<cmd_cache, prev_cache, nHeaders, skipped, warnings, fault,
                             listLocals>>
              /\ IF remaining_size - chunk_size > 0
                 THEN /\ f' = [f EXCEPT !.pos = f.pos + buf]
                      /\ remaining_size' = remaining_size - chunk_size
                      /\ UNCHANGED <<pc, data_size, range_size, range_offset,
                                     nsp_name>>
                 ELSE FrReturn

\* lines 96-105 and the test of line 94: one iteration of the loop
FrStream ==
    /\ pc = "FR_STREAM"
    /\ LET chunk_size == ChunkSize(remaining_size)
           buf == FileRead(f, chunk_size)
       IN  IF buf = 0
           THEN /\ warnings' = Append(warnings, "unexpected EOF")
                /\ FrReturn
                /\ UNCHANGED <<cmd_cache, prev_cache, nHeaders, skipped, ops, fault, listLocals>>
           ELSE \/ TransportFails
                \/ /\ ops' = Append(ops, WrFileOp(nsp_name, f.pos, buf))
                   /\ UNCHANGED <<cmd_cache, prev_cache, nHeaders, skipped, warnings, fault,
                                  listLocals>>
                   /\ IF remaining_size - chunk_size > 0
                      THEN /\ f' = [f EXCEPT !.pos = f.pos + buf]
                           /\ remaining_size' = remaining_size - chunk_size
                           /\ UNCHANGED <<pc, data_size, range_size, range_offset,
                                          nsp_name>>
                      ELSE FrReturn

\* ------------------------------------------------------------------------
Next ==
    \/ ReadHeader
    \/ ExitCommand
    \/ ListResponse
    \/ ListAck
    \/ ListPayload
    \/ FrAck
    \/ FrPayload
    \/ FrResponse
    \/ FrReadAck
    \/ FrOpen
    \/ FrStream

Spec == Init /\ [][Next]_vars

\* ------------------------------------------------------------------------
\* Reading the log of the command in progress
\* ------------------------------------------------------------------------
\* the block read by poll_commands was a header with this id
InCommand(id) ==
    /\ Len(ops) > 0
    /\ StartsWith(ops[1].data, Magic)
    /\ UnpackLE(SubSeq(ops[1].data, 9, 12)) = id

KnownIds == {EXIT, FILE_RANGE, LIST}

InUnknownCommand ==
    /\ Len(ops) > 0
    /\ StartsWith(ops[1].data, Magic)
    /\ UnpackLE(SubSeq(ops[1].data, 9, 12)) \notin KnownIds

\* a FILE_RANGE command whose file was opened: the log is
\* header, ACK, payload, RESPONSE, ack, open, data...
FrOpened ==
    /\ InCommand(FILE_RANGE)
    /\ Len(ops) >= 6
    /\ ops[6].op = "open"
    /\ ops[6].len # Missing

FrDone == FrOpened /\ pc = "AWAIT_HEADER"

\* the fields of the request as the peer sent them
ReqSize   == UnpackLE(SubSeq(ops[3].data, 1, 4))
ReqOffset == UnpackLE(SubSeq(ops[3].data, 5, 12))
ReqName   == DecodeUtf8(SubSeq(ops[3].data, 17, Len(ops[3].data))).str
FileLen   == ops[6].len

FileWrites == SubSeq(ops, 7, Len(ops))

RECURSIVE SumLen(_)
SumLen(ws) == IF ws = <<>> THEN 0 ELSE Head(ws).len + SumLen(Tail(ws))

Streamed == SumLen(FileWrites)

\* the writes are consecutive spans of the file at path, the first one at start
InOrderFrom(ws, path, start) ==
    \A i \in 1..Len(ws) :
        /\ ws[i].op = "write_file"
        /\ ws[i].path = path
        /\ ws[i].off = start + SumLen(SubSeq(ws, 1, i - 1))

Warned(w) == \E i \in 1..Len(warnings) : warnings[i] = w

ExitHeader == Magic \o <<1, 0, 0, 0>> \o <<0, 0, 0, 0>> \o <<0, 0, 0, 0>>

\* ------------------------------------------------------------------------
\* C1: a FILE_RANGE of size S at offset O on a file of length L >= O + S
\* writes, after the ACK read, exactly S bytes: the file's bytes O..O+S-1 in
\* order, no write larger than 1 MiB (the total is reached when the handler
\* returns; until then the writes are a prefix of the range).
\* ------------------------------------------------------------------------
C1_ExactRange ==
    (FrOpened /\ ReqOffset + ReqSize <= FileLen) =>
        /\ ops[5].op = "read" /\ ops[5].len = 16
        /\ \A i \in 1..6 : ops[i].op # "write_file"
        /\ InOrderFrom(FileWrites, ops[6].path, ReqOffset)
        /\ \A i \in 1..Len(FileWrites) : FileWrites[i].len <= 1048576
        /\ Streamed <= ReqSize
        /\ (pc = "AWAIT_HEADER" => Streamed = ReqSize)

\* a range of 2 MiB + 3 bytes ending at the end of the file, sent in 3 writes
C1_Witness ==
    /\ FrDone
    /\ ReqOffset + ReqSize = FileLen
    /\ Len(FileWrites) = 3
    /\ Streamed = 2 * 1048576 + 3

\* ------------------------------------------------------------------------
\* C2: a FILE_RANGE of size S > 0 at offset O on a file of length L < O + S
\* returns normally having written fewer than S bytes and logged a warning.
\* ------------------------------------------------------------------------
C2_ShortRangeWarns ==
    (FrOpened /\ ReqSize > 0 /\ ReqOffset + ReqSize > FileLen) =>
        /\ fault \in {"none", "transport"}
        /\ (pc = "AWAIT_HEADER" => Streamed < ReqSize /\ Warned("unexpected EOF"))

\* ------------------------------------------------------------------------
\* C3: a header with the magic and an id that is no recognized command is
\* answered like EXIT: the only write is the header RESPONSE/EXIT/0, a
\* warning is logged, the process terminates, and no header is awaited again
\* (a failing write ends the session instead).
\* ------------------------------------------------------------------------
C3_UnknownIsExit ==
    InUnknownCommand =>
        /\ Warned("unknown command id")
        /\ \/ pc = "EXIT_RESPONSE" /\ Len(ops) = 1
           \/ pc = "CRASHED" /\ fault = "transport" /\ Len(ops) = 1
           \/ /\ pc = "TERMINATED"
              /\ Len(ops) = 2
              /\ ops[2].op = "write"
              /\ ops[2].data = ExitHeader

C3_Witness ==
    /\ pc = "TERMINATED"
    /\ Len(ops) = 2
    /\ StartsWith(ops[1].data, Magic)
    /\ UnpackLE(SubSeq(ops[1].data, 9, 12)) = 99

\* ------------------------------------------------------------------------
\* C4: on EXIT exactly one header, RESPONSE/EXIT/0, is written and the
\* terminal state is entered; from the terminal state nothing is read,
\* written or dispatched any more.
\* ------------------------------------------------------------------------
C4_ExitTerminates ==
    /\ [](InCommand(EXIT) =>
            \/ pc = "EXIT_RESPONSE" /\ Len(ops) = 1
            \/ pc = "CRASHED" /\ fault = "transport" /\ Len(ops) = 1
            \/ pc = "TERMINATED" /\ SubSeq(ops, 2, Len(ops)) = <<WrOp(ExitHeader)>>)
    /\ [][pc = "TERMINATED" =>
            (pc' = "TERMINATED" /\ ops' = ops /\ nHeaders' = nHeaders
               /\ cmd_cache' = cmd_cache)]_vars

\* terminated by an EXIT command while more header reads were possible
C4_Witness ==
    /\ InCommand(EXIT)
    /\ pc = "TERMINATED"
    /\ nHeaders < MaxHeaders

\* ------------------------------------------------------------------------
\* Reading the log of a LIST command: header, walk, RESPONSE, ack, payload
\* ------------------------------------------------------------------------
\* the catalog of the LIST in progress, or just installed
ListCatalog == IF Len(ops) = 5 THEN cmd_cache.items ELSE cached_roms

CharLen(c) == IF c < 128 THEN 1 ELSE IF c < 2048 THEN 2 ELSE IF c < 65536 THEN 3 ELSE 4

RECURSIVE Utf8Len(_)
Utf8Len(str) == IF str = <<>> THEN 0 ELSE CharLen(Head(str)) + Utf8Len(Tail(str))

RECURSIVE LinesLen(_)
LinesLen(names) ==
    IF names = <<>> THEN 0 ELSE Utf8Len(Head(names)) + 1 + LinesLen(Tail(names))

\* the files of a walk, in discovery order, as <<dirName, filename>>
RECURSIVE Flatten(_)
Flatten(tree) ==
    IF tree = <<>> THEN <<>>
    ELSE [i \in 1..Len(Head(tree)[2]) |-> <<Head(tree)[1], Head(tree)[2][i]>>]
            \o Flatten(Tail(tree))

\* the lowercased name ends in .nsp, .nsz or .xci
HasRomExtension(filename) ==
    \E ext \in {<<46, 110, 115, 112>>, <<46, 110, 115, 122>>, <<46, 120, 99, 105>>} :
        EndsWith(Lower(filename), ext)

\* ------------------------------------------------------------------------
\* C5: the payload a LIST command writes after the ack has as many bytes as
\* the size field of the RESPONSE header written before it, and as the sum
\* of (UTF-8 length + 1) over the catalog's names; an empty catalog gives
\* size 0 and an empty payload.
\* ------------------------------------------------------------------------
C5_ListSize ==
    (InCommand(LIST) /\ Len(ops) = 5) =>
        /\ ops[3].op = "write"
        /\ SubSeq(ops[3].data, 1, 12) = Magic \o <<1, 0, 0, 0>> \o <<3, 0, 0, 0>>
        /\ ops[4].op = "read"
        /\ ops[5].op = "write"
        /\ Len(ops[5].data) = UnpackLE(SubSeq(ops[3].data, 13, 16))
        /\ Len(ops[5].data) = LinesLen(DictKeys(cmd_cache.items))
        /\ (cmd_cache.items = <<>> => ops[5].data = <<>>)

\* a completed LIST whose catalog holds a name with a two-byte character
C5_Witness ==
    /\ InCommand(LIST)
    /\ Len(ops) = 5
    /\ pc = "AWAIT_HEADER"
    /\ DictHas(cmd_cache.items, NameE)
    /\ Len(ops[5].data) = 12

\* ------------------------------------------------------------------------
\* C6: the catalog a LIST builds holds exactly the walked files whose
\* lowercased extension is .nsp, .nsz or .xci, keyed by base name in
\* discovery order, a shared base name mapped to the last-discovered path.
\* ------------------------------------------------------------------------
C6_ExactlyRomExtensions ==
    (InCommand(LIST) /\ Len(ops) >= 2) =>
        LET files == Flatten(ops[2].data)
            cat   == ListCatalog
            First(k) == CHOOSE i \in 1..Len(files) :
                           /\ files[i][2] = k
                           /\ \A j \in 1..(i - 1) : files[j][2] # k
            Last(k)  == CHOOSE i \in 1..Len(files) :
                           /\ files[i][2] = k
                           /\ \A j \in (i + 1)..Len(files) : files[j][2] # k
        IN  /\ \A i \in 1..Len(files) :
                 HasRomExtension(files[i][2]) <=> DictHas(cat, files[i][2])
            /\ \A i \in 1..Len(cat) :
                 /\ \E j \in 1..Len(files) : files[j][2] = cat[i][1]
                 /\ cat[i][2] = JoinPath(files[Last(cat[i][1])][1], cat[i][1])
                 /\ \A j \in 1..(i - 1) : First(cat[j][1]) < First(cat[i][1])

\* ------------------------------------------------------------------------
\* C7: the path FILE_RANGE opens is the catalog's value for the requested
\* name when the active catalog has that exact key, and the requested name
\* itself otherwise (no such key, empty catalog, no LIST yet).
\* ------------------------------------------------------------------------
C7_Resolution ==
    (InCommand(FILE_RANGE) /\ Len(ops) >= 6) =>
        LET hits == {i \in 1..Len(cmd_cache.items) : cmd_cache.items[i][1] = ReqName}
        IN  /\ ops[6].op = "open"
            /\ IF ~cmd_cache.none /\ hits # {}
               THEN \A i \in hits : ops[6].path = cmd_cache.items[i][2]
               ELSE ops[6].path = ReqName

\* "a.nsp" requested and "r/s/a.nsp" opened
C7_Witness ==
    /\ InCommand(FILE_RANGE)
    /\ Len(ops) >= 6
    /\ ReqName = NameA
    /\ ops[6].path = <<114, 47, 115, 47, 97, 46, 110, 115, 112>>

\* ------------------------------------------------------------------------
\* C8: 16 bytes read while a header is awaited that do not start with
\* "DBI0" are dropped: nothing is written, nothing fails, the catalog stays,
\* and the next thing done is again the read of a header.
\* ------------------------------------------------------------------------
C8_SkipNonMagic ==
    [][(/\ pc = "AWAIT_HEADER"
        /\ nHeaders' = nHeaders + 1
        /\ SubSeq(ops'[1].data, 1, 4) # <<68, 66, 73, 48>>)
          => /\ pc' = "AWAIT_HEADER"
             /\ fault' = "none"
             /\ Len(ops') = 1
             /\ ops'[1].op = "read"
             /\ ops'[1].len = 16
             /\ cmd_cache' = cmd_cache
             /\ warnings' = <<>>
             /\ skipped' = skipped + 1]_vars

\* two blocks in a row were dropped, the last one "DBI1..."
C8_Witness ==
    /\ pc = "AWAIT_HEADER"
    /\ skipped >= 2
    /\ ops[1].data = AlmostMagic

\* ------------------------------------------------------------------------
\* C9: a header is read and dispatched only while no handler runs; a
\* running handler keeps its command until it returns or the session ends,
\* and the 16 bytes it reads as its ack select no handler.
\* ------------------------------------------------------------------------
HandlerSteps(p) ==
    IF p \in {"LIST_RESPONSE", "LIST_ACK", "LIST_PAYLOAD"}
    THEN {"LIST_RESPONSE", "LIST_ACK", "LIST_PAYLOAD"}
    ELSE IF p \in {"FR_ACK", "FR_PAYLOAD", "FR_RESPONSE", "FR_READ_ACK", "FR_OPEN",
                   "FR_STREAM"}
    THEN {"FR_ACK", "FR_PAYLOAD", "FR_RESPONSE", "FR_READ_ACK", "FR_OPEN", "FR_STREAM"}
    ELSE {p}

C9_OneInFlight ==
    [][/\ (nHeaders' # nHeaders => pc = "AWAIT_HEADER")
       /\ (pc \notin {"AWAIT_HEADER", "TERMINATED", "CRASHED"} =>
             /\ pc' \in HandlerSteps(pc) \cup {"AWAIT_HEADER", "TERMINATED", "CRASHED"}
             /\ ops'[1] = ops[1]
             /\ nHeaders' = nHeaders)
       /\ (pc = "LIST_ACK" /\ pc' # "CRASHED" => pc' = "LIST_PAYLOAD")
       /\ (pc = "FR_READ_ACK" /\ pc' # "CRASHED" => pc' = "FR_OPEN")]_vars

\* an EXIT request sent where the ack was read, and streaming went on
C9_Witness ==
    /\ pc = "FR_STREAM"
    /\ Len(ops) >= 8
    /\ ops[5].data = Magic \o <<0, 0, 0, 0>> \o <<0, 0, 0, 0>> \o <<0, 0, 0, 0>>

\* ------------------------------------------------------------------------
\* C10: when the resolved path cannot be opened the session ends there: no
\* file byte is written, the open is tried once, no header is read again.
\* ------------------------------------------------------------------------
OpenFailed == \E i \in 1..Len(ops) : ops[i].op = "open" /\ ops[i].len = Missing

C10_OpenFailureFatal ==
    /\ [](OpenFailed =>
            /\ pc = "CRASHED"
            /\ Cardinality({i \in 1..Len(ops) : ops[i].op = "open"}) = 1
            /\ \A i \in 1..Len(ops) : ops[i].op # "write_file")
    /\ [][OpenFailed => (pc' = pc /\ ops' = ops /\ nHeaders' = nHeaders)]_vars

\* the open of a catalog path failed while header reads were still possible
C10_Witness ==
    /\ OpenFailed
    /\ pc = "CRASHED"
    /\ nHeaders < MaxHeaders
    /\ ~cmd_cache.none
    /\ ops[6].path # ReqName

\* ------------------------------------------------------------------------
\* C11: the transport operations of a FILE_RANGE command come in this
\* order: write ACK/FILE_RANGE with the size field of the incoming header,
\* read that many payload bytes, write RESPONSE/FILE_RANGE with the
\* range_size of the payload (whatever the file's length), read 16 bytes
\* that are not checked, and only then write file data.
\* ------------------------------------------------------------------------
C11_FileRangeOrder ==
    InCommand(FILE_RANGE) =>
        /\ Len(ops) >= 2 =>
             /\ ops[2].op = "write"
             /\ ops[2].data = Magic \o <<2, 0, 0, 0>> \o <<2, 0, 0, 0>>
                                 \o SubSeq(ops[1].data, 13, 16)
        /\ Len(ops) >= 3 =>
             /\ ops[3].op = "read"
             /\ Len(ops[3].data) = UnpackLE(SubSeq(ops[1].data, 13, 16))
        /\ Len(ops) >= 4 =>
             /\ ops[4].op = "write"
             /\ ops[4].data = Magic \o <<1, 0, 0, 0>> \o <<2, 0, 0, 0>>
                                 \o SubSeq(ops[3].data, 1, 4)
        /\ Len(ops) >= 5 => ops[5].op = "read" /\ Len(ops[5].data) = 16
        /\ Len(ops) >= 6 => ops[6].op = "open"
        /\ \A i \in 1..Len(ops) : (ops[i].op = "write_file") <=> (i >= 7)

\* 1 MiB + 1 announced for a file of 10 bytes, 16 zero bytes taken as the ack
C11_Witness ==
    /\ InCommand(FILE_RANGE)
    /\ Len(ops) >= 7
    /\ ops[5].data = Zero16
    /\ ReqSize = 1048577
    /\ FileLen = 10

\* ------------------------------------------------------------------------
\* C12: the transport operations of a LIST command come in this order:
\* write RESPONSE/LIST with the serialized length, read 16 bytes that are
\* not checked, write the whole list in one write; the active catalog
\* changes only in the step that completes this write.
\* ------------------------------------------------------------------------
C12_ListOrder ==
    /\ [](InCommand(LIST) =>
            /\ Len(ops) <= 5
            /\ Len(ops) >= 2 => ops[2].op = "walk"
            /\ Len(ops) >= 3 =>
                 /\ ops[3].op = "write"
                 /\ ops[3].data = Magic \o <<1, 0, 0, 0>> \o <<3, 0, 0, 0>>
                        \o PackLE(LinesLen(DictKeys(ListCatalog)), 4)
            /\ Len(ops) >= 4 => ops[4].op = "read" /\ Len(ops[4].data) = 16
            /\ Len(ops) = 5 =>
                 /\ ops[5].op = "write"
                 /\ ops[5].data = EncodeUtf8(JoinLines(DictKeys(cmd_cache.items)))
                 /\ pc \in {"AWAIT_HEADER", "CRASHED"})
    /\ [][cmd_cache' # cmd_cache =>
            /\ pc = "LIST_PAYLOAD"
            /\ pc' = "AWAIT_HEADER"
            /\ Len(ops') = 5
            /\ ops' = Append(ops, ops'[5])
            /\ ops'[5].op = "write"]_vars

\* a LIST completed with 16 zero bytes as its ack and a new, non-empty catalog
C12_Witness ==
    /\ InCommand(LIST)
    /\ Len(ops) = 5
    /\ ops[4].data = Zero16
    /\ cmd_cache.items # <<>>
    /\ cmd_cache # prev_cache

\* ------------------------------------------------------------------------
\* C13: the active catalog is absent until a LIST completes and is then
\* exactly the mapping the latest completed LIST built: it is replaced as a
\* whole, and no other step (FILE_RANGE, skipped block, EXIT) changes it.
\* ------------------------------------------------------------------------
ListCompletes == pc = "LIST_PAYLOAD" /\ pc' = "AWAIT_HEADER"

C13_CatalogIsLatestList ==
    /\ cmd_cache = [none |-> TRUE, items |-> <<>>]
    /\ [][IF ListCompletes
          THEN cmd_cache' = [none |-> FALSE, items |-> WalkInto(<<>>, ops[2].data)]
          ELSE cmd_cache' = cmd_cache]_vars

\* "a.nsp" was in the catalog the latest LIST replaced, is not in the active
\* one, and a FILE_RANGE for it opens the literal name
C13_Witness ==
    /\ InCommand(FILE_RANGE)
    /\ Len(ops) >= 6
    /\ ReqName = NameA
    /\ DictHas(prev_cache.items, NameA)
    /\ ~cmd_cache.none
    /\ ~DictHas(cmd_cache.items, NameA)
    /\ ops[6].path = NameA

\* ------------------------------------------------------------------------
\* C14: what a header with the magic starts depends on its id alone: the
\* same header with any other type field would have led to the same
\* position, warning and handler argument, and so would any other size
\* field unless the id is FILE_RANGE; the step itself writes nothing and
\* leaves the catalog as it is.
\* ------------------------------------------------------------------------
C14_DispatchOnIdOnly ==
    [][(/\ pc = "AWAIT_HEADER"
        /\ nHeaders' = nHeaders + 1
        /\ SubSeq(ops'[1].data, 1, 4) = <<68, 66, 73, 48>>)
          => LET h == ops'[1].data
                 done == [pc |-> pc', skipped |-> skipped', warnings |-> warnings',
                          data_size |-> data_size']
                 Retyped(t) == SubSeq(h, 1, 4) \o <<t, 0, 0, 0>> \o SubSeq(h, 9, 16)
                 Resized(n) == SubSeq(h, 1, 12) \o <<n, 0, 0, 0>>
             IN  /\ \A t \in {0, 1, 2, 7, 255} : Dispatch(Retyped(t)) = done
                 /\ SubSeq(h, 9, 12) # <<2, 0, 0, 0>> =>
                        \A n \in {0, 16, 22, 255} : Dispatch(Resized(n)) = done
                 /\ Len(ops') = 1
                 /\ cmd_cache' = cmd_cache
                 /\ fault' = fault]_vars

\* a LIST carried out for a header of type 7 and size 22
C14_Witness ==
    /\ Len(ops) = 5
    /\ ops[1].data = <<68, 66, 73, 48>> \o <<7, 0, 0, 0>> \o <<3, 0, 0, 0>> \o <<22, 0, 0, 0>>
    /\ ops[5].op = "write"
    /\ pc = "AWAIT_HEADER"

\* ------------------------------------------------------------------------
\* C15: a transport read or write that fails ends the session: the failed
\* operation is not done again, no transport operation follows, no command
\* is dispatched.
\* ------------------------------------------------------------------------
IsTransportOp(o) == o.op \in {"read", "write", "write_file"}

C15_TransportFailureFatal ==
    /\ [](fault = "transport" => pc = "CRASHED")
    /\ [][fault' = "transport" /\ fault # "transport" =>
            /\ SelectSeq(ops', IsTransportOp) = SelectSeq(ops, IsTransportOp)
            /\ nHeaders' = nHeaders
            /\ cmd_cache' = cmd_cache]_vars
    /\ [][fault = "transport" =>
            (pc' = pc /\ ops' = ops /\ nHeaders' = nHeaders /\ fault' = fault)]_vars

\* a write of file data failed after two chunks, header reads still possible
C15_Witness ==
    /\ fault = "transport"
    /\ pc = "CRASHED"
    /\ InCommand(FILE_RANGE)
    /\ Len(ops) = 8
    /\ remaining_size > 0
    /\ nHeaders < MaxHeaders

\* ------------------------------------------------------------------------
\* C16: while a range is streamed the bytes written so far are at most
\* range_size minus the remaining counter, every write is non-empty and
\* lowers the counter, so the total never exceeds the announced size and
\* there are at most ceil(range_size / 1 MiB) writes.
\* ------------------------------------------------------------------------
C16_StreamingBounds ==
    /\ [](FrOpened =>
            /\ \A i \in 1..Len(FileWrites) : FileWrites[i].len >= 1
            /\ Streamed <= ReqSize
            /\ Streamed <= UnpackLE(SubSeq(ops[4].data, 13, 16))
            /\ Len(FileWrites) <= (ReqSize + 1048576 - 1) \div 1048576
            /\ pc = "FR_STREAM" =>
                 /\ range_size = ReqSize
                 /\ remaining_size > 0
                 /\ Streamed <= range_size - remaining_size)
    /\ [][pc = "FR_STREAM" /\ Len(ops') > Len(ops) =>
            /\ ops'[Len(ops')].op = "write_file"
            /\ remaining_size' < remaining_size
            /\ remaining_size' >= 0]_vars

\* after a short first read: 8 bytes written, 1 MiB taken off the counter
C16_Witness ==
    /\ pc = "FR_STREAM"
    /\ Len(FileWrites) = 1
    /\ Streamed = 8
    /\ range_size - remaining_size = 1048576

\* ------------------------------------------------------------------------
\* C17: a display name shared by several walked files is listed once, at
\* the place of its first discovery, and mapped to the last-discovered
\* path; the payload has one line per distinct name, not one per file.
\* ------------------------------------------------------------------------
C17_DuplicateNames ==
    (InCommand(LIST) /\ Len(ops) = 5) =>
        LET files == Flatten(ops[2].data)
            cat   == cmd_cache.items
            names == [i \in 1..Len(cat) |-> cat[i][1]]
            First(k) == CHOOSE i \in 1..Len(files) :
                           /\ files[i][2] = k
                           /\ \A j \in 1..(i - 1) : files[j][2] # k
            Last(k)  == CHOOSE i \in 1..Len(files) :
                           /\ files[i][2] = k
                           /\ \A j \in (i + 1)..Len(files) : files[j][2] # k
            listed == {i \in 1..Len(files) : \E j \in 1..Len(cat) : cat[j][1] = files[i][2]}
            lines  == {i \in 1..Len(ops[5].data) : ops[5].data[i] = 10}
        IN  /\ \A i, j \in 1..Len(names) : i # j => names[i] # names[j]
            /\ ops[5].data = EncodeUtf8(JoinLines(names))
            /\ \A i, j \in 1..Len(names) : i < j => First(names[i]) < First(names[j])
            /\ \A i \in 1..Len(cat) :
                 cat[i][2] = files[Last(names[i])][1] \o <<47>> \o names[i]
            /\ Cardinality(lines) = Cardinality({files[i][2] : i \in listed})
            /\ Cardinality(lines) <= Cardinality(listed)

\* "a.nsp" found in r and in r/s: three files listed in two lines, "a.nsp"
\* first and mapped to r/s/a.nsp
C17_Witness ==
    /\ InCommand(LIST)
    /\ Len(ops) = 5
    /\ ops[2].data = Tree1
    /\ ops[5].data = <<97, 46, 110, 115, 112, 10, 66, 46, 78, 83, 90, 10>>
    /\ cmd_cache.items[1] = <<NameA, <<114, 47, 115, 47, 97, 46, 110, 115, 112>>>>

\* ------------------------------------------------------------------------
\* C18: a header with id 1 (LIST_DEPRECATED) is handled as an unknown id: no
\* directory is walked and no list written, the header RESPONSE/EXIT/0 is
\* written and the process terminates.
\* ------------------------------------------------------------------------
C18_DeprecatedListIsUnknown ==
    InCommand(1) =>
        /\ \A i \in 1..Len(ops) : ops[i].op # "walk"
        /\ cached_roms = <<>>
        /\ Warned("unknown command id")
        /\ pc \in {"EXIT_RESPONSE", "TERMINATED", "CRASHED"}
        /\ pc = "TERMINATED" => ops = <<ops[1], WrOp(ExitHeader)>>
        /\ pc # "TERMINATED" => Len(ops) = 1

C18_Witness ==
    /\ InCommand(1)
    /\ pc = "TERMINATED"
    /\ Len(ops) = 2

\* ------------------------------------------------------------------------
\* C19: when the open of a FILE_RANGE command fails, the RESPONSE header
\* announcing range_size has been written and the 16-byte ack read; the
\* peer gets no file byte and nothing is written about the failure.
\* ------------------------------------------------------------------------
C19_OpenFailsAfterResponse ==
    OpenFailed =>
        /\ InCommand(FILE_RANGE)
        /\ Len(ops) = 6
        /\ ops[4].op = "write"
        /\ ops[4].data = Magic \o <<1, 0, 0, 0>> \o <<2, 0, 0, 0>> \o PackLE(range_size, 4)
        /\ ops[5].op = "read" /\ Len(ops[5].data) = 16
        /\ ops[6].op = "open" /\ ops[6].len = Missing
        /\ {i \in 1..Len(ops) : ops[i].op \in {"write", "write_file"}} = {2, 4}

\* 2 MiB + 3 bytes were announced and the file is missing
C19_Witness ==
    /\ OpenFailed
    /\ fault = "OSError"
    /\ UnpackLE(SubSeq(ops[4].data, 13, 16)) = 2 * 1048576 + 3

\* ------------------------------------------------------------------------
\* C20: a FILE_RANGE header with a size field below 16 ends the session
\* with a parse failure once the ACK is written and the payload read, with
\* no RESPONSE header and no open; with size 16 the name is empty and the
\* parse succeeds.
\* ------------------------------------------------------------------------
HeaderSize == UnpackLE(SubSeq(ops[1].data, 13, 16))

C20_ShortPayload ==
    InCommand(FILE_RANGE) =>
        /\ HeaderSize < 16 =>
             /\ Len(ops) <= 3
             /\ Len(ops) = 3 =>
                  /\ pc = "CRASHED"
                  /\ fault = "struct.error"
                  /\ ops[2].op = "write"
                  /\ ops[3].op = "read"
                  /\ Len(ops[3].data) = HeaderSize
             /\ Len(ops) < 3 => fault \in {"none", "transport"}
        /\ HeaderSize = 16 =>
             /\ fault \notin {"struct.error", "UnicodeDecodeError"}
             /\ Len(ops) = 3 =>
                  /\ pc = "FR_RESPONSE" \/ (pc = "CRASHED" /\ fault = "transport")
                  /\ nsp_name = <<>>
             /\ Len(ops) >= 6 => ops[6].path = <<>>

\* 15 payload bytes were read and the parse failed
C20_Witness ==
    /\ InCommand(FILE_RANGE)
    /\ HeaderSize = 15
    /\ Len(ops) = 3
    /\ fault = "struct.error"

====
